---- MODULE Spec2Model ----
(***************************************************************************)
(* rscam (src/src/lib.rs): the capture session `Camera`, its pool of       *)
(* `Arc<MappedRegion>` buffers and the `Frame` leases handed out by        *)
(* `capture()`.  Every public operation is one action; the replies of the  *)
(* driver to the ioctl/mmap calls the operation makes are its inputs.      *)
(***************************************************************************)
EXTENDS Integers, Sequences, FiniteSets, Bags, TLC

VARIABLES
    state,        \* Camera.state: "Idle" | "Streaming" | "Aborted"
    resolution,   \* Camera.resolution
    format,       \* Camera.format
    buffers,      \* Camera.buffers: sequence of region ids (one Arc each)
    frames,       \* the Frames alive (returned by capture, not yet dropped): a bag
    regions,      \* every region ever mmap'ed: id -> [index, length, mapped, unmaps]
    queued,       \* driver side: buffer indices currently queued to the driver
    closes,       \* number of v4l2::close(fd) calls made
    dropped,      \* the Camera has been dropped
    offIssued,    \* history: a VIDIOC_STREAMOFF request has been issued
    last          \* the last operation: its name, outcome and the requests it issued

vars ==
    <<state, resolution, format, buffers, frames, regions, queued, closes, dropped,
      offIssued, last>>

-----------------------------------------------------------------------------
(* Bounds of the model *)

MaxBuffers == 2     \* largest Config.nbuffers tried
MaxRegions == 3     \* mmap calls over one run
MaxFrames  == 2     \* Frames alive at once

-----------------------------------------------------------------------------
(* Inputs *)

\* the buffer length the driver reports in QUERYBUF, and the bytesused it may report
\* in DQBUF: less than that length (a compressed frame) and more than it
Lengths == { 2 }
UsedLengths == { 1, 3 }

\* Field::None, Field::Top
Fields == { 1, 2 }

YUYV == <<89, 85, 89, 86>>
MJPG == <<77, 74, 80, 71>>

fourcc(fmt) == fmt[1] + fmt[2] * 256 + fmt[3] * 65536 + fmt[4] * 16777216

\* the Configs tried over a session's life: a 4-byte code and a 3-byte one
Configs ==
    [ interval : { <<1, 30>> }, resolution : { <<1280, 720>> },
      format : { YUYV, <<89, 85, 89>> }, field : { 1 }, nbuffers : 1 .. MaxBuffers ]

\* what the driver writes back into v4l2::Format on VIDIOC_S_FMT: the request
\* honoured, or one parameter substituted, or the ioctl failing
FmtReplies ==
    { [ ok |-> FALSE, width |-> 0, height |-> 0, pixelformat |-> 0, field |-> 0 ],
      [ ok |-> TRUE, width |-> 1280, height |-> 720, pixelformat |-> fourcc(YUYV), field |-> 1 ],
      [ ok |-> TRUE, width |-> 1280, height |-> 960, pixelformat |-> fourcc(YUYV), field |-> 1 ],
      [ ok |-> TRUE, width |-> 1280, height |-> 720, pixelformat |-> fourcc(MJPG), field |-> 1 ],
      [ ok |-> TRUE, width |-> 1280, height |-> 720, pixelformat |-> fourcc(YUYV), field |-> 2 ] }

\* what the driver writes back into v4l2::StreamParm on VIDIOC_S_PARM
ParmReplies ==
    { [ ok |-> FALSE, numerator |-> 0, denominator |-> 0 ],
      [ ok |-> TRUE, numerator |-> 1, denominator |-> 30 ],
      [ ok |-> TRUE, numerator |-> 1, denominator |-> 15 ] }

\* the first start() of a session, over every combination of request and reply
WideIntervals == { <<1, 30>>, <<2, 60>>, <<1, 15>>, <<0, 1>>, <<65536, 65536>> }

WideConfigs ==
    [ interval : WideIntervals, resolution : { <<1280, 720>>, <<1280, 960>> },
      format : { YUYV, MJPG, <<89, 85, 89>> }, field : Fields, nbuffers : { 1 } ]

WideFmtReplies ==
    [ ok : {FALSE}, width : {0}, height : {0}, pixelformat : {0}, field : {0} ]
    \cup
    [ ok : {TRUE}, width : {1280}, height : {720, 960},
      pixelformat : { fourcc(YUYV), fourcc(MJPG) }, field : Fields ]

WideParmReplies ==
    [ ok : {FALSE}, numerator : {0}, denominator : {0} ]
    \cup
    { [ ok |-> TRUE, numerator |-> i[1], denominator |-> i[2] ] : i \in WideIntervals }

\* one request to the driver (or the kernel): what, its argument, whether it succeeded
Req(op, arg, ok) == [ op |-> op, arg |-> arg, ok |-> ok ]

NoCfg ==
    [ interval |-> <<0, 0>>, resolution |-> <<0, 0>>, format |-> <<>>, field |-> 0,
      nbuffers |-> 0 ]

-----------------------------------------------------------------------------
(* Arc<MappedRegion>: a region is unmapped when its last Arc is dropped *)

\* some Arc of region id is still held, by the pool bufs or by a Frame of frs
Referenced(id, bufs, frs) ==
    \/ \E i \in 1 .. Len(bufs) : bufs[i] = id
    \/ \E f \in BagToSet(frs) : f.region = id

\* the regions of gone (Arcs just dropped, in drop order) that nobody holds any more
Freed(gone, bufs, frs) ==
    SelectSeq(gone, LAMBDA id : ~Referenced(id, bufs, frs))

\* MappedRegion::drop for every region of ids
Munmap(regs, ids) ==
    [ id \in DOMAIN regs |->
        IF \E k \in 1 .. Len(ids) : ids[k] = id
        THEN [ regs[id] EXCEPT !.mapped = FALSE, !.unmaps = @ + 1 ]
        ELSE regs[id] ]

MunmapReqs(ids) == [ k \in 1 .. Len(ids) |-> Req("MUNMAP", ids[k], TRUE) ]

\* the Camera's fields and the driver's queue, as one record
Cam ==
    [ state |-> state, resolution |-> resolution, format |-> format,
      buffers |-> buffers, regions |-> regions, queued |-> queued ]

-----------------------------------------------------------------------------
(* Camera's private helpers *)

\* tune_format with the pixel code compared before the resolution
tune_format_pixel_first(res, fmt, field, rep) ==
    IF Len(fmt) # 4 THEN [ result |-> "BadFormat", reqs |-> <<>> ]
    ELSE IF ~rep.ok THEN [ result |-> "Io", reqs |-> << Req("S_FMT", 0, rep.ok) >> ]
    ELSE IF fourcc(fmt) # rep.pixelformat
         THEN [ result |-> "BadFormat", reqs |-> << Req("S_FMT", 0, rep.ok) >> ]
    ELSE IF res # <<rep.width, rep.height>>
         THEN [ result |-> "BadResolution", reqs |-> << Req("S_FMT", 0, rep.ok) >> ]
    ELSE IF field # rep.field
         THEN [ result |-> "BadField", reqs |-> << Req("S_FMT", 0, rep.ok) >> ]
    ELSE [ result |-> "Ok", reqs |-> << Req("S_FMT", 0, rep.ok) >> ]

tune_format(res, fmt, field, rep) ==
    IF Len(fmt) # 4 THEN [ result |-> "BadFormat", reqs |-> <<>> ]
    ELSE IF ~rep.ok THEN [ result |-> "Io", reqs |-> << Req("S_FMT", 0, rep.ok) >> ]
    ELSE IF res # <<rep.width, rep.height>>
         THEN [ result |-> "BadResolution", reqs |-> << Req("S_FMT", 0, rep.ok) >> ]
    ELSE IF fourcc(fmt) # rep.pixelformat
         THEN [ result |-> "BadFormat", reqs |-> << Req("S_FMT", 0, rep.ok) >> ]
    ELSE IF field # rep.field
         THEN [ result |-> "BadField", reqs |-> << Req("S_FMT", 0, rep.ok) >> ]
    ELSE [ result |-> "Ok", reqs |-> << Req("S_FMT", 0, rep.ok) >> ]

(* u32 arithmetic, on base-256 limbs (a u32 product needs up to 64 bits) *)

Limb(x, i) == (x \div (256 ^ i)) % 256

LimbProd(a, b, i, k) ==
    IF k - i >= 0 /\ k - i <= 3 THEN Limb(a, i) * Limb(b, k - i) ELSE 0

\* column k of the schoolbook product of two u32
Col(a, b, k) ==
    LimbProd(a, b, 0, k) + LimbProd(a, b, 1, k) + LimbProd(a, b, 2, k) + LimbProd(a, b, 3, k)

RECURSIVE Carry(_, _, _)
Carry(a, b, k) ==
    IF k = 0 THEN 0 ELSE (Col(a, b, k - 1) + Carry(a, b, k - 1)) \div 256

\* limb k (0 .. 7) of the full 64-bit product
Digit(a, b, k) == (Col(a, b, k) + Carry(a, b, k)) % 256

\* a * b as u32 arithmetic without overflow checks computes it: the low four limbs
MulWrap(a, b) == [ k \in 1 .. 4 |-> Digit(a, b, k - 1) ]

MulOverflows(a, b) == \E k \in 4 .. 7 : Digit(a, b, k) # 0

\* a u32 product of tune_stream does not fit 32 bits
Overflows(interval, rep) ==
    \/ MulOverflows(rep.numerator, interval[2])
    \/ MulOverflows(rep.denominator, interval[1])

\* checks: the build has overflow checks on (a debug build panics, a release build wraps)
tune_stream(interval, rep, checks) ==
    LET x == MulWrap(rep.numerator, interval[2])
        y == MulWrap(rep.denominator, interval[1])
        zero == <<0, 0, 0, 0>>
    IN  IF ~rep.ok THEN [ result |-> "Io", reqs |-> << Req("S_PARM", 0, rep.ok) >> ]
        ELSE IF checks /\ Overflows(interval, rep)
             THEN [ result |-> "panic", reqs |-> << Req("S_PARM", 0, rep.ok) >> ]
        ELSE IF x = zero \/ y = zero
             THEN [ result |-> "BadInterval", reqs |-> << Req("S_PARM", 0, rep.ok) >> ]
        ELSE IF x # y
             THEN [ result |-> "BadInterval", reqs |-> << Req("S_PARM", 0, rep.ok) >> ]
        ELSE [ result |-> "Ok", reqs |-> << Req("S_PARM", 0, rep.ok) >> ]

\* the driver's answers to one alloc_buffers(n): REQBUFS fails, or QUERYBUF or mmap
\* fails at index failAt, or (failAt = n) nothing fails
AllocReplies(n) ==
    { [ reqbufs |-> FALSE, failAt |-> 0, failOp |-> "REQBUFS", length |-> 0 ] }
    \cup [ reqbufs : {TRUE}, failAt : 0 .. n - 1, failOp : {"QUERYBUF", "MMAP"},
           length : Lengths ]
    \cup [ reqbufs : {TRUE}, failAt : {n}, failOp : {"none"}, length : Lengths ]

alloc_buffers(cam, nbuffers, rep) ==
    LET k    == IF rep.reqbufs THEN rep.failAt ELSE 0
        base == Len(cam.regions)
        done == [ j \in 1 .. 2 * k |->
                    IF j % 2 = 1 THEN Req("QUERYBUF", (j - 1) \div 2, TRUE)
                                 ELSE Req("MMAP", (j - 2) \div 2, TRUE) ]
        tail == IF ~rep.reqbufs \/ rep.failAt = nbuffers THEN <<>>
                ELSE IF rep.failOp = "QUERYBUF" THEN << Req("QUERYBUF", k, FALSE) >>
                ELSE << Req("QUERYBUF", k, TRUE), Req("MMAP", k, FALSE) >>
    IN  [ result |-> IF rep.reqbufs /\ rep.failAt = nbuffers THEN "Ok" ELSE "Io",
          reqs   |-> << Req("REQBUFS", nbuffers, rep.reqbufs) >> \o done \o tail,
          cam    |-> [ cam EXCEPT
                         !.queued  = IF rep.reqbufs THEN {} ELSE @,
                         !.regions = @ \o [ i \in 1 .. k |->
                                              [ index |-> i - 1, length |-> rep.length,
                                                mapped |-> TRUE, unmaps |-> 0 ] ],
                         !.buffers = @ \o [ i \in 1 .. k |-> base + i ] ] ]

\* free_buffers of a pool that owns its regions outright: every region is unmapped,
\* a Frame's included
free_buffers_unmap_all(cam, frs) ==
    [ cam  |-> [ cam EXCEPT !.buffers = <<>>, !.regions = Munmap(@, cam.buffers) ],
      reqs |-> MunmapReqs(cam.buffers) ]

free_buffers(cam, frs) ==
    LET gone == Freed(cam.buffers, <<>>, frs)
    IN  [ cam  |-> [ cam EXCEPT !.buffers = <<>>, !.regions = Munmap(@, gone) ],
          reqs |-> MunmapReqs(gone) ]

\* streamon() that asks for STREAMON first and queues the buffers afterwards
streamon_before_queueing(cam, failAt) ==
    LET len == Len(cam.buffers)
        k   == IF failAt < len THEN failAt ELSE len
        qs  == [ j \in 1 .. k |-> Req("QBUF", j - 1, TRUE) ]
    IN  [ ok   |-> failAt = len + 1,
          reqs |-> (IF failAt < len THEN << Req("QBUF", failAt, FALSE) >>
                                    ELSE << Req("STREAMON", 0, failAt = len + 1) >>) \o qs,
          cam  |-> [ cam EXCEPT !.queued = @ \cup { j - 1 : j \in 1 .. k } ] ]

\* failAt < len: QBUF of index failAt fails; failAt = len: STREAMON fails;
\* failAt = len + 1: nothing fails
streamon(cam, failAt) ==
    LET len == Len(cam.buffers)
        k   == IF failAt < len THEN failAt ELSE len
        qs  == [ j \in 1 .. k |-> Req("QBUF", j - 1, TRUE) ]
    IN  [ ok   |-> failAt = len + 1,
          reqs |-> qs \o (IF failAt < len THEN << Req("QBUF", failAt, FALSE) >>
                                          ELSE << Req("STREAMON", 0, failAt = len + 1) >>),
          cam  |-> [ cam EXCEPT !.queued = @ \cup { j - 1 : j \in 1 .. k } ] ]

streamoff(cam, ok) ==
    [ ok   |-> ok,
      reqs |-> << Req("STREAMOFF", 0, ok) >>,
      cam  |-> [ cam EXCEPT !.queued = IF ok THEN {} ELSE @ ] ]

-----------------------------------------------------------------------------
(* Camera's public operations.  Each returns the Camera afterwards, the     *)
(* call's outcome ("Ok", an Error variant, or "panic") and the requests it  *)
(* issued, in order.                                                         *)

\* start() without its assertion
StartPre_unchecked(cam) == TRUE

\* assert_eq!(self.state, State::Idle)
StartPre(cam) == cam.state = "Idle"

\* assert_eq!(self.state, State::Streaming), of capture() and of stop()
StreamingPre(cam) == cam.state = "Streaming"

\* start() that keeps the pool when streamon() fails
start_keeps_pool(cam, frs, config, fmtRep, parmRep, checks, allocRep, onFail) ==
    LET tf == tune_format(config.resolution, config.format, config.field, fmtRep)
        ts == tune_stream(config.interval, parmRep, checks)
        al == alloc_buffers(cam, config.nbuffers, allocRep)
        on == streamon(al.cam, onFail)
    IN  IF ~StartPre(cam) THEN [ cam |-> cam, result |-> "panic", reqs |-> <<>> ]
        ELSE IF tf.result # "Ok"
             THEN [ cam |-> cam, result |-> tf.result, reqs |-> tf.reqs ]
        ELSE IF ts.result # "Ok"
             THEN [ cam |-> cam, result |-> ts.result, reqs |-> tf.reqs \o ts.reqs ]
        ELSE IF al.result # "Ok"
             THEN [ cam |-> al.cam, result |-> al.result,
                    reqs |-> tf.reqs \o ts.reqs \o al.reqs ]
        ELSE IF ~on.ok
             THEN [ cam |-> on.cam, result |-> "Io",
                    reqs |-> tf.reqs \o ts.reqs \o al.reqs \o on.reqs ]
        ELSE [ cam    |-> [ on.cam EXCEPT !.resolution = config.resolution,
                                          !.format = config.format,
                                          !.state = "Streaming" ],
               result |-> "Ok",
               reqs   |-> tf.reqs \o ts.reqs \o al.reqs \o on.reqs ]

\* start() that goes to Streaming without recording the format and resolution
start_records_nothing(cam, frs, config, fmtRep, parmRep, checks, allocRep, onFail) ==
    LET tf == tune_format(config.resolution, config.format, config.field, fmtRep)
        ts == tune_stream(config.interval, parmRep, checks)
        al == alloc_buffers(cam, config.nbuffers, allocRep)
        on == streamon(al.cam, onFail)
        fr == free_buffers(on.cam, frs)
    IN  IF ~StartPre(cam) THEN [ cam |-> cam, result |-> "panic", reqs |-> <<>> ]
        ELSE IF tf.result # "Ok"
             THEN [ cam |-> cam, result |-> tf.result, reqs |-> tf.reqs ]
        ELSE IF ts.result # "Ok"
             THEN [ cam |-> cam, result |-> ts.result, reqs |-> tf.reqs \o ts.reqs ]
        ELSE IF al.result # "Ok"
             THEN [ cam |-> al.cam, result |-> al.result,
                    reqs |-> tf.reqs \o ts.reqs \o al.reqs ]
        ELSE IF ~on.ok
             THEN [ cam |-> fr.cam, result |-> "Io",
                    reqs |-> tf.reqs \o ts.reqs \o al.reqs \o on.reqs \o fr.reqs ]
        ELSE [ cam    |-> [ on.cam EXCEPT !.state = "Streaming" ],
               result |-> "Ok",
               reqs   |-> tf.reqs \o ts.reqs \o al.reqs \o on.reqs ]

start(cam, frs, config, fmtRep, parmRep, checks, allocRep, onFail) ==
    LET tf == tune_format(config.resolution, config.format, config.field, fmtRep)
        ts == tune_stream(config.interval, parmRep, checks)
        al == alloc_buffers(cam, config.nbuffers, allocRep)
        on == streamon(al.cam, onFail)
        fr == free_buffers(on.cam, frs)
    IN  IF ~StartPre(cam) THEN [ cam |-> cam, result |-> "panic", reqs |-> <<>> ]
        ELSE IF tf.result # "Ok"
             THEN [ cam |-> cam, result |-> tf.result, reqs |-> tf.reqs ]
        ELSE IF ts.result # "Ok"
             THEN [ cam |-> cam, result |-> ts.result, reqs |-> tf.reqs \o ts.reqs ]
        ELSE IF al.result # "Ok"
             THEN [ cam |-> al.cam, result |-> al.result,
                    reqs |-> tf.reqs \o ts.reqs \o al.reqs ]
        ELSE IF ~on.ok
             THEN [ cam |-> fr.cam, result |-> "Io",
                    reqs |-> tf.reqs \o ts.reqs \o al.reqs \o on.reqs \o fr.reqs ]
        ELSE [ cam    |-> [ on.cam EXCEPT !.resolution = config.resolution,
                                          !.format = config.format,
                                          !.state = "Streaming" ],
               result |-> "Ok",
               reqs   |-> tf.reqs \o ts.reqs \o al.reqs \o on.reqs ]

\* what the driver may answer to VIDIOC_DQBUF when the pool holds len buffers: an
\* error, or any index up to the first one outside the pool
DqReplies(len) ==
    { [ ok |-> FALSE, index |-> 0, bytesused |-> 0 ] }
    \cup [ ok : {TRUE}, index : 0 .. len, bytesused : UsedLengths ]

\* frs: the Frames alive; the new Frame, if any, joins them
capture(cam, frs, rep) ==
    IF ~StreamingPre(cam)
    THEN [ cam |-> cam, frames |-> frs, result |-> "panic", reqs |-> <<>> ]
    ELSE IF ~rep.ok
    THEN [ cam |-> cam, frames |-> frs, result |-> "Io",
           reqs |-> << Req("DQBUF", 0, rep.ok) >> ]
    ELSE IF ~(rep.index < Len(cam.buffers))
    THEN [ cam |-> [ cam EXCEPT !.queued = @ \ {rep.index} ], frames |-> frs,
           result |-> "panic", reqs |-> << Req("DQBUF", 0, rep.ok) >> ]
    ELSE [ cam    |-> [ cam EXCEPT !.queued = @ \ {rep.index} ],
           frames |-> frs (+) SetToBag({ [ resolution |-> cam.resolution,
                                           format     |-> cam.format,
                                           region     |-> cam.buffers[rep.index + 1],
                                           length     |-> rep.bytesused,
                                           index      |-> rep.index ] }),
           result |-> "Ok",
           reqs   |-> << Req("DQBUF", 0, rep.ok) >> ]

\* stop() that goes back to Idle instead of Aborted
stop_resets_state(cam, frs, ok) ==
    LET off == streamoff(cam, ok)
        fr  == free_buffers(off.cam, frs)
    IN  IF ~StreamingPre(cam) THEN [ cam |-> cam, result |-> "panic", reqs |-> <<>> ]
        ELSE IF ~off.ok THEN [ cam |-> off.cam, result |-> "Io", reqs |-> off.reqs ]
        ELSE [ cam    |-> [ fr.cam EXCEPT !.state = "Idle" ],
               result |-> "Ok",
               reqs   |-> off.reqs \o fr.reqs ]

stop(cam, frs, ok) ==
    LET off == streamoff(cam, ok)
        fr  == free_buffers(off.cam, frs)
    IN  IF ~StreamingPre(cam) THEN [ cam |-> cam, result |-> "panic", reqs |-> <<>> ]
        ELSE IF ~off.ok THEN [ cam |-> off.cam, result |-> "Io", reqs |-> off.reqs ]
        ELSE [ cam    |-> [ fr.cam EXCEPT !.state = "Aborted" ],
               result |-> "Ok",
               reqs   |-> off.reqs \o fr.reqs ]

\* a Frame whose drop gives the buffer back only while the pool still holds its region
frame_drop_no_requeue(cam, frs, f, ok) ==
    LET rest == frs (-) SetToBag({f})
        gone == Freed(<< f.region >>, cam.buffers, rest)
        held == \E i \in 1 .. Len(cam.buffers) : cam.buffers[i] = f.region
    IN  [ cam    |-> [ cam EXCEPT !.queued = IF ok /\ held THEN @ \cup {f.index} ELSE @,
                                  !.regions = Munmap(@, gone) ],
          frames |-> rest,
          result |-> "Ok",
          reqs   |-> (IF held THEN << Req("QBUF", f.index, ok) >> ELSE <<>>)
                     \o MunmapReqs(gone) ]

\* a Frame whose drop queues buffer 0 whatever buffer it was dequeued with
frame_drop_requeues_first(cam, frs, f, ok) ==
    LET rest == frs (-) SetToBag({f})
        gone == Freed(<< f.region >>, cam.buffers, rest)
    IN  [ cam    |-> [ cam EXCEPT !.queued = IF ok THEN @ \cup {0} ELSE @,
                                  !.regions = Munmap(@, gone) ],
          frames |-> rest,
          result |-> "Ok",
          reqs   |-> << Req("QBUF", 0, ok) >> \o MunmapReqs(gone) ]

\* impl Drop for Frame, of Frame f; ok: the driver accepts the QBUF.
\* The Frame's Arc is dropped with it.
frame_drop(cam, frs, f, ok) ==
    LET rest == frs (-) SetToBag({f})
        gone == Freed(<< f.region >>, cam.buffers, rest)
    IN  [ cam    |-> [ cam EXCEPT !.queued = IF ok THEN @ \cup {f.index} ELSE @,
                                  !.regions = Munmap(@, gone) ],
          frames |-> rest,
          result |-> "Ok",
          reqs   |-> << Req("QBUF", f.index, ok) >> \o MunmapReqs(gone) ]

\* a drop that gives up, as try! would, when stop() fails: the descriptor stays open
camera_drop_try_stop(cam, frs, okStop) ==
    LET st   == IF cam.state = "Streaming" THEN stop(cam, frs, okStop)
                ELSE [ cam |-> cam, result |-> "Ok", reqs |-> <<>> ]
        gone == Freed(st.cam.buffers, <<>>, frs)
    IN  [ cam    |-> [ st.cam EXCEPT !.buffers = <<>>, !.regions = Munmap(@, gone) ],
          result |-> st.result,
          reqs   |-> st.reqs
                     \o (IF st.result = "Ok" THEN << Req("CLOSE", 0, TRUE) >> ELSE <<>>)
                     \o MunmapReqs(gone) ]

\* a drop after which the regions still in the pool stay mapped
camera_drop_keeps_regions(cam, frs, okStop) ==
    LET st == IF cam.state = "Streaming" THEN stop(cam, frs, okStop)
              ELSE [ cam |-> cam, result |-> "Ok", reqs |-> <<>> ]
    IN  [ cam    |-> [ st.cam EXCEPT !.buffers = <<>> ],
          result |-> "Ok",
          reqs   |-> st.reqs \o << Req("CLOSE", 0, TRUE) >> ]

\* impl Drop for Camera; afterwards the fields are dropped, the Vec of Arcs with them
camera_drop(cam, frs, okStop) ==
    LET st   == IF cam.state = "Streaming" THEN stop(cam, frs, okStop)
                ELSE [ cam |-> cam, result |-> "Ok", reqs |-> <<>> ]
        gone == Freed(st.cam.buffers, <<>>, frs)
    IN  [ cam    |-> [ st.cam EXCEPT !.buffers = <<>>, !.regions = Munmap(@, gone) ],
          result |-> "Ok",
          reqs   |-> st.reqs \o << Req("CLOSE", 0, TRUE) >> \o MunmapReqs(gone) ]

-----------------------------------------------------------------------------
(* The state machine *)

\* neg: the replies a start() got to S_FMT and S_PARM, where they are recorded
NoNeg == [ fmtRep |-> <<>>, parmRep |-> <<>> ]

Last(op, cfg, neg, out) ==
    [ op |-> op, result |-> out.result, reqs |-> out.reqs, cfg |-> cfg, neg |-> neg ]

\* the number of requests op among reqs
Count(reqs, op) == Cardinality({ i \in 1 .. Len(reqs) : reqs[i].op = op })

\* what is kept of an operation that has ended
Record(op, cfg, neg, out) ==
    /\ last' = Last(op, cfg, neg, out)
    /\ offIssued' = (offIssued \/ Count(out.reqs, "STREAMOFF") > 0)

SetCam(cam) ==
    /\ state' = cam.state
    /\ resolution' = cam.resolution
    /\ format' = cam.format
    /\ buffers' = cam.buffers
    /\ regions' = cam.regions
    /\ queued' = cam.queued

Init ==
    /\ state = "Idle"
    /\ resolution = <<0, 0>>
    /\ format = <<0, 0, 0, 0>>
    /\ buffers = <<>>
    /\ frames = EmptyBag
    /\ regions = <<>>
    /\ queued = {}
    /\ closes = 0
    /\ dropped = FALSE
    /\ offIssued = FALSE
    /\ last = [ op |-> "new", result |-> "Ok", reqs |-> <<>>, cfg |-> NoCfg, neg |-> NoNeg ]

NoFmt == [ ok |-> FALSE, width |-> 0, height |-> 0, pixelformat |-> 0, field |-> 0 ]
NoParm == [ ok |-> FALSE, numerator |-> 0, denominator |-> 0 ]
NoAlloc == [ reqbufs |-> FALSE, failAt |-> 0, failOp |-> "REQBUFS", length |-> 0 ]

\* camera.start(&config), config drawn from cfgs and the driver's replies to S_FMT and
\* S_PARM from fmtReps and parmReps; a reply is drawn only for a request the call
\* gets to.  record: keep the two replies in last.neg
StartWith(cfgs, fmtReps, parmReps, record) ==
    /\ ~dropped
    /\ \E config \in cfgs :
        /\ Len(regions) + config.nbuffers <= MaxRegions
        /\ \E fmtRep \in IF StartPre(Cam) /\ Len(config.format) = 4
                         THEN fmtReps ELSE {NoFmt} :
           LET tf == tune_format(config.resolution, config.format, config.field, fmtRep)
           IN
           \E parmRep \in IF StartPre(Cam) /\ tf.result = "Ok"
                          THEN parmReps ELSE {NoParm} :
           \E checks \in IF parmRep.ok /\ Overflows(config.interval, parmRep)
                         THEN BOOLEAN ELSE {FALSE} :
           LET ts == tune_stream(config.interval, parmRep, checks)
           IN
           \E allocRep \in IF StartPre(Cam) /\ tf.result = "Ok" /\ ts.result = "Ok"
                           THEN AllocReplies(config.nbuffers) ELSE {NoAlloc} :
           \E onFail \in IF allocRep.reqbufs /\ allocRep.failAt = config.nbuffers
                         THEN 0 .. Len(buffers) + config.nbuffers + 1 ELSE {0} :
           LET out == start(Cam, frames, config, fmtRep, parmRep, checks, allocRep, onFail)
           IN  /\ SetCam(out.cam)
               /\ Record("start", config,
                         IF record THEN [ fmtRep |-> fmtRep, parmRep |-> parmRep ]
                                   ELSE NoNeg,
                         out)
               /\ UNCHANGED <<frames, closes, dropped>>

Start == StartWith(Configs, FmtReplies, ParmReplies, FALSE)

\* camera.capture(), the driver's reply to DQBUF drawn from replies
CaptureWith(replies) ==
    /\ ~dropped
    /\ BagCardinality(frames) < MaxFrames
    /\ \E rep \in IF StreamingPre(Cam) THEN replies
                  ELSE { [ ok |-> FALSE, index |-> 0, bytesused |-> 0 ] } :
        LET out == capture(Cam, frames, rep)
        IN  /\ SetCam(out.cam)
            /\ frames' = out.frames
            /\ Record("capture", NoCfg, NoNeg, out)
            /\ UNCHANGED <<closes, dropped>>

Capture == CaptureWith(DqReplies(Len(buffers)))

\* camera.stop()
Stop ==
    /\ ~dropped
    /\ \E ok \in IF StreamingPre(Cam) THEN BOOLEAN ELSE {FALSE} :
        LET out == stop(Cam, frames, ok)
        IN  /\ SetCam(out.cam)
            /\ Record("stop", NoCfg, NoNeg, out)
            /\ UNCHANGED <<frames, closes, dropped>>

\* a Frame goes out of scope; on a closed descriptor the QBUF can only fail
FrameDrop ==
    \E f \in BagToSet(frames) :
    \E ok \in IF closes = 0 THEN BOOLEAN ELSE {FALSE} :
        LET out == frame_drop(Cam, frames, f, ok)
        IN  /\ SetCam(out.cam)
            /\ frames' = out.frames
            /\ Record("frame_drop", NoCfg, NoNeg, out)
            /\ UNCHANGED <<closes, dropped>>

\* the Camera goes out of scope
CameraDrop ==
    /\ ~dropped
    /\ \E okStop \in IF state = "Streaming" THEN BOOLEAN ELSE {FALSE} :
        LET out == camera_drop(Cam, frames, okStop)
        IN  /\ SetCam(out.cam)
            /\ closes' = closes + Count(out.reqs, "CLOSE")
            /\ dropped' = TRUE
            /\ Record("camera_drop", NoCfg, NoNeg, out)
            /\ UNCHANGED frames

Next == Start \/ Capture \/ Stop \/ FrameDrop \/ CameraDrop

\* a session's life
Spec == Init /\ [][Next]_vars

\* the first start() of a session
StartFresh ==
    /\ last.op = "new"
    /\ StartWith(WideConfigs, WideFmtReplies, WideParmReplies, TRUE)

SpecNeg == Init /\ [][StartFresh]_vars

\* a session's life with a driver that hands out only buffers queued to it
CaptureQueued ==
    CaptureWith({ r \in DqReplies(Len(buffers)) : r.ok => r.index \in queued })

NextQueued == Start \/ CaptureQueued \/ Stop \/ FrameDrop \/ CameraDrop

SpecQueued == Init /\ [][NextQueued]_vars

-----------------------------------------------------------------------------
(* Properties *)

\* the last operation was op and it returned (it did not panic)
Returned(op) == last.op = op /\ last.result # "panic"

\* the last operation issued a request of one of ops
Issued(ops) == \E i \in 1 .. Len(last.reqs) : last.reqs[i].op \in ops

\* the last operation was a start() that failed while allocating buffers
AllocFailed ==
    /\ last.op = "start" /\ last.result = "Io"
    /\ Len(last.reqs) > 0
    /\ last.reqs[Len(last.reqs)].op \in {"REQBUFS", "QUERYBUF", "MMAP"}

NegotiationErrors == {"BadFormat", "BadResolution", "BadField", "BadInterval"}

\* C1: when stop() returns, with Ok or with an I/O error, the pool is empty.
C1_StopReleasesPool ==
    Returned("stop") => Len(buffers) = 0

\* C2: when start() returns an I/O error from buffer allocation (REQBUFS, QUERYBUF
\* or mmap failed), the pool is empty.
C2_AllocFailureRollsBack ==
    AllocFailed => Len(buffers) = 0

\* C3: a start(config) that succeeds leaves exactly config.nbuffers regions in the
\* pool; a stop() that succeeds and a start() that fails leave none.
C3_PoolSize ==
    /\ (last.op = "start" /\ last.result = "Ok") => Len(buffers) = last.cfg.nbuffers
    /\ (last.op = "stop" /\ last.result = "Ok") => Len(buffers) = 0
    /\ (Returned("start") /\ last.result # "Ok") => Len(buffers) = 0

\* the parameters of the S_FMT reply of the last start() that differ from its request
ResolutionDiffers ==
    last.cfg.resolution # << last.neg.fmtRep.width, last.neg.fmtRep.height >>
PixelDiffers == fourcc(last.cfg.format) # last.neg.fmtRep.pixelformat
FieldDiffers == last.cfg.field # last.neg.fmtRep.field

\* C4 (as stated): the mismatches are reported in the order format-code length,
\* pixel code, resolution, field mode.
C4_PixelBeforeResolution ==
    last.op = "start" =>
        IF Len(last.cfg.format) # 4 THEN last.result = "BadFormat"
        ELSE last.neg.fmtRep.ok =>
            IF PixelDiffers THEN last.result = "BadFormat"
            ELSE IF ResolutionDiffers THEN last.result = "BadResolution"
            ELSE IF FieldDiffers THEN last.result = "BadField"
            ELSE last.result \notin {"BadFormat", "BadResolution", "BadField"}

\* C4 (amended): the mismatches are reported in the order format-code length,
\* resolution, pixel code, field mode: the first start() of a session fails with the
\* error of the earliest parameter, in that order, that the S_FMT reply changed.
C4_ResolutionBeforePixel ==
    last.op = "start" =>
        IF Len(last.cfg.format) # 4 THEN last.result = "BadFormat"
        ELSE last.neg.fmtRep.ok =>
            IF ResolutionDiffers THEN last.result = "BadResolution"
            ELSE IF PixelDiffers THEN last.result = "BadFormat"
            ELSE IF FieldDiffers THEN last.result = "BadField"
            ELSE last.result \notin {"BadFormat", "BadResolution", "BadField"}

\* a reply that changed the pixel code and the resolution was answered BadResolution
C4_Witness ==
    /\ last.op = "start" /\ Len(last.cfg.format) = 4 /\ last.neg.fmtRep.ok
    /\ PixelDiffers /\ ResolutionDiffers
    /\ last.result = "BadResolution"

\* C5: a start() that fails with a negotiation error issued no REQBUFS and no mmap,
\* and leaves the session Idle with an empty pool.
C5_NegotiationFailureLeavesNothing ==
    (last.op = "start" /\ last.result \in NegotiationErrors) =>
        /\ ~Issued({"REQBUFS", "MMAP"})
        /\ state = "Idle"
        /\ Len(buffers) = 0

\* the step drops Frame f
DropsFrame(f) ==
    /\ last'.op = "frame_drop"
    /\ frames = frames' (+) SetToBag({f})

QbufsOf(reqs) == SelectSeq(reqs, LAMBDA r : r.op = "QBUF")

\* C6: while a Frame is alive the only steps that issue a QBUF are drops of a
\* Frame; the drop of a Frame issues exactly one QBUF, of that Frame's buffer index,
\* and returns normally whether or not the driver accepted it; when the driver
\* accepted it, the index is queued to the driver again.
C6_RequeueOnDrop ==
    [][ /\ (frames # EmptyBag /\ last'.op # "frame_drop") => QbufsOf(last'.reqs) = <<>>
        /\ \A f \in BagToSet(frames) :
             DropsFrame(f) =>
                /\ Len(QbufsOf(last'.reqs)) = 1
                /\ last'.reqs[1].op = "QBUF"
                /\ last'.reqs[1].arg = f.index
                /\ last'.result = "Ok"
                /\ (last'.reqs[1].ok => f.index \in queued') ]_vars

\* a Frame of a Streaming session was dropped and its buffer went back to the driver
C6_Witness ==
    /\ last.op = "frame_drop"
    /\ state = "Streaming"
    /\ last.reqs[1].op = "QBUF" /\ last.reqs[1].ok
    /\ last.reqs[1].arg \in queued

\* C7: a region that the pool or a live Frame references is mapped, and has never
\* been unmapped.
C7_ReferencedRegionsMapped ==
    \A id \in DOMAIN regions :
        Referenced(id, buffers, frames) =>
            regions[id].mapped /\ regions[id].unmaps = 0

\* stop() or the Camera's drop has emptied the pool while two Frames were alive, and
\* their regions are still mapped
C7_Witness ==
    /\ state = "Aborted"
    /\ last.op \in {"stop", "camera_drop"}
    /\ Len(buffers) = 0
    /\ BagCardinality(frames) = 2
    /\ \A f \in BagToSet(frames) : regions[f.region].mapped

\* C8: the length of every live Frame is at most the length of its region.
C8_LengthWithinCapacity ==
    \A f \in BagToSet(frames) : f.length <= regions[f.region].length

\* C9: the state moves only Idle -> Streaming, by a start() that succeeds, and
\* Streaming -> Aborted, by a stop() that succeeds (the one of the Camera's drop
\* included); every other step leaves it as it is.
C9_OneWay ==
    [][ \/ state' = state
        \/ /\ state = "Idle" /\ state' = "Streaming"
           /\ last'.op = "start" /\ last'.result = "Ok"
        \/ /\ state = "Streaming" /\ state' = "Aborted"
           /\ \/ last'.op = "stop" /\ last'.result = "Ok"
              \/ last'.op = "camera_drop" ]_vars

\* the session has been started and stopped
C9_Witness ==
    state = "Aborted" /\ last.op = "stop" /\ last.result = "Ok"

\* C10: start() on a session that is not Idle, and capture() or stop() on one that is
\* not Streaming, panic: they issue no request, return no value and change neither
\* the session nor the pool, the regions, the Frames or the driver's queue.
C10_WrongStatePanics ==
    [][ ( \/ last'.op = "start" /\ state # "Idle"
          \/ last'.op \in {"capture", "stop"} /\ state # "Streaming" ) =>
        /\ last'.result = "panic"
        /\ last'.reqs = <<>>
        /\ UNCHANGED <<state, resolution, format, buffers, frames, regions, queued,
                       closes, dropped>> ]_vars

\* a second start() on a Streaming session has panicked
C10_Witness ==
    /\ last.op = "start" /\ last.result = "panic"
    /\ state = "Streaming"
    /\ Len(buffers) > 0


\* the requests of the last operation, by position
Reqs == last.reqs
At(reqs, op) == { i \in 1 .. Len(reqs) : reqs[i].op = op }
FailedAt(reqs, op) == { i \in At(reqs, op) : ~reqs[i].ok }

\* the last operation was a start() whose streamon() failed, at a QBUF or at STREAMON
StreamonFailed ==
    /\ last.op = "start"
    /\ FailedAt(Reqs, "QBUF") \cup FailedAt(Reqs, "STREAMON") # {}

\* C11: when queueing a buffer or STREAMON fails during start(), the pool is released
\* before the error is returned: start() returns Io, the pool holds no region (and no
\* region stays mapped), and the state is still Idle.
C11_StreamonFailureReleasesPool ==
    StreamonFailed =>
        /\ last.result = "Io"
        /\ Len(buffers) = 0
        /\ \A id \in 1 .. Len(regions) : ~regions[id].mapped
        /\ state = "Idle"

\* STREAMON itself failed, after every buffer was queued, and regions were unmapped
C11_Witness ==
    /\ StreamonFailed
    /\ FailedAt(Reqs, "STREAMON") # {}
    /\ At(Reqs, "MUNMAP") # {}

\* C12: dropping the Camera closes the descriptor exactly once and yields no error.
\* From Streaming it first asks for STREAMOFF, once, and closes whether or not that
\* succeeded; from any other state it asks for no STREAMOFF, and from Aborted the
\* close is all it does: the pool, released by stop(), is not released again.
C12_DropClosesOnce ==
    [][ /\ closes' <= 1
        /\ last'.op = "camera_drop" =>
            /\ closes = 0 /\ closes' = 1
            /\ last'.result = "Ok"
            /\ Count(last'.reqs, "CLOSE") = 1
            /\ state = "Streaming" =>
                /\ last'.reqs[1].op = "STREAMOFF"
                /\ Count(last'.reqs, "STREAMOFF") = 1
                /\ \A i \in At(last'.reqs, "CLOSE") : i > 1
            /\ state # "Streaming" =>
                /\ Count(last'.reqs, "STREAMOFF") = 0
                /\ last'.reqs[1].op = "CLOSE"
            /\ state = "Aborted" =>
                /\ last'.reqs = << Req("CLOSE", 0, TRUE) >>
                /\ buffers = <<>> /\ buffers' = <<>>
      ]_vars

\* a Streaming Camera was dropped, its STREAMOFF failed, and it was closed all the same
C12_Witness ==
    /\ last.op = "camera_drop"
    /\ FailedAt(Reqs, "STREAMOFF") = {1}
    /\ closes = 1


\* a * b as an integer: all eight limbs of the product
MulFull(a, b) == [ k \in 1 .. 8 |-> Digit(a, b, k - 1) ]

\* the last operation was a start() that got the driver's reply to S_PARM
IntervalChecked == last.op = "start" /\ last.neg.parmRep.ok

\* n' * d = d' * n as integers, for the request n/d and the reply n'/d'
Proportional ==
    MulFull(last.neg.parmRep.numerator, last.cfg.interval[2])
        = MulFull(last.neg.parmRep.denominator, last.cfg.interval[1])

\* C13: for every requested interval n/d and every reply n'/d' of the driver (u32
\* components), the interval step of start() succeeds exactly when n' * d = d' * n as
\* integers, and fails with BadInterval otherwise.
C13_SucceedsIffProportional ==
    IntervalChecked =>
        IF Proportional THEN last.result \notin { "BadInterval", "panic" }
        ELSE last.result = "BadInterval"


\* C14: the requests keep the required order.  In a start(), S_FMT precedes REQBUFS;
\* when STREAMON is issued, every index of the pool (the regions it held before plus
\* those this start() mapped) has been queued by an earlier QBUF; and in a session
\* that has reached Streaming a region is unmapped only after a STREAMOFF has been
\* issued, in an earlier operation or earlier in the same one.
C14_RequestOrder ==
    [][ LET reqs == last'.reqs
            pool == Len(buffers)
                    + Cardinality({ m \in At(reqs, "MMAP") : reqs[m].ok })
        IN  /\ \A i \in At(reqs, "REQBUFS") : \E j \in At(reqs, "S_FMT") : j < i
            /\ \A i \in At(reqs, "STREAMON") : \A k \in 0 .. pool - 1 :
                   \E j \in 1 .. i - 1 : reqs[j] = Req("QBUF", k, TRUE)
            /\ state \in { "Streaming", "Aborted" } =>
                   \A i \in At(reqs, "MUNMAP") :
                       offIssued \/ \E j \in At(reqs, "STREAMOFF") : j < i
      ]_vars

\* a stream over two buffers was started and stopped, and both regions were unmapped
C14_Witness ==
    /\ last.op = "stop"
    /\ last.result = "Ok"
    /\ Count(Reqs, "MUNMAP") >= 2
    /\ offIssued


\* C15: a start(config) that returns either succeeds, and then the state is
\* Streaming and the recorded format and resolution are config's, or fails, and then
\* the state is still Idle and the recorded format and resolution are what they
\* were; every Frame carries the recorded format and resolution.
C15_StartSucceedsOrChangesNothing ==
    [][ /\ last'.op = "start" /\ last'.result = "Ok" =>
            /\ state = "Idle" /\ state' = "Streaming"
            /\ resolution' = last'.cfg.resolution
            /\ format' = last'.cfg.format
        /\ last'.op = "start" /\ last'.result \notin { "Ok", "panic" } =>
            /\ state = "Idle" /\ state' = "Idle"
            /\ resolution' = resolution
            /\ format' = format
        /\ \A f \in BagToSet(frames') :
            f.resolution = resolution' /\ f.format = format'
      ]_vars

\* a start() failed, a later one succeeded, and a Frame of its stream is alive
C15_Witness ==
    /\ state = "Streaming"
    /\ Len(regions) > Len(buffers)
    /\ resolution = <<1280, 720>> /\ format = YUYV
    /\ frames # EmptyBag


\* C16: while Streaming (and the Camera alive), pool position i holds the region mapped for driver buffer
\* index i; a capture() whose dequeued index is outside the pool aborts and makes no
\* Frame; every Frame made references the pool position equal to its dequeued index.
C16_PoolPositionIsDriverIndex ==
    [][ /\ state' = "Streaming" =>
            \A i \in 1 .. Len(buffers') : regions'[buffers'[i]].index = i - 1
        /\ last'.op = "capture" /\ last'.result = "panic" => frames' = frames
        /\ state' = "Streaming" /\ ~dropped' =>
            \A f \in BagToSet(frames') :
                /\ f.index \in 0 .. Len(buffers') - 1
                /\ f.region = buffers'[f.index + 1]
      ]_vars


\* the Frames alive that were dequeued with buffer index k
LeasesOf(k) == { f \in BagToSet(frames) : f.index = k }

\* a Streaming session whose Camera is alive
Live == state = "Streaming" /\ ~dropped

\* C17 as stated: while Streaming, with a driver that hands out only indices queued to
\* it, there are no more Frames than the pool has regions, no two Frames have the same
\* index, and each index of the pool is either queued at the driver or held by
\* exactly one Frame.
C17_DriverOrOneLease ==
    Live =>
        /\ BagCardinality(frames) <= Len(buffers)
        /\ \A f \in BagToSet(frames) : CopiesIn(f, frames) = 1 /\ LeasesOf(f.index) = {f}
        /\ \A k \in 0 .. Len(buffers) - 1 :
            \/ k \in queued /\ LeasesOf(k) = {}
            \/ k \notin queued /\ Cardinality(LeasesOf(k)) = 1

\* C17, amended: while Streaming, with a driver that hands out only indices queued to
\* it, there are no more Frames than the pool has regions, no two Frames have the same
\* index, and no index is both queued at the driver and held by a Frame; an index may
\* be held by neither (its Frame was dropped and the QBUF failed).
C17_AtMostOneHolder ==
    Live =>
        /\ BagCardinality(frames) <= Len(buffers)
        /\ \A f \in BagToSet(frames) : CopiesIn(f, frames) = 1 /\ LeasesOf(f.index) = {f}
        /\ \A k \in 0 .. Len(buffers) - 1 :
            /\ k \in queued => LeasesOf(k) = {}
            /\ Cardinality(LeasesOf(k)) <= 1

\* every buffer of a pool of two is held by a Frame
C17_Witness ==
    /\ Live
    /\ Len(buffers) = 2
    /\ BagCardinality(frames) = 2


\* C18: a start() on an Idle session whose config.format is not 4 bytes long fails
\* with BadFormat without any request to the device, and leaves the state Idle and
\* the pool empty.
C18_LengthCheckedFirst ==
    [][ last'.op = "start" /\ state = "Idle" /\ Len(last'.cfg.format) # 4 =>
            /\ last'.result = "BadFormat"
            /\ last'.reqs = <<>>
            /\ state' = "Idle"
            /\ Len(buffers') = 0
      ]_vars


\* the requests that go through the device descriptor
FdOps ==
    { "S_FMT", "S_PARM", "REQBUFS", "QUERYBUF", "MMAP", "QBUF", "DQBUF",
      "STREAMON", "STREAMOFF" }

\* C19: no request is issued on the descriptor after it has been closed: an operation
\* that begins with the descriptor closed issues none (the QBUF of a Frame's drop
\* included), and the drop of the Camera issues none after its CLOSE.
C19_NoRequestAfterClose ==
    [][ LET reqs == last'.reqs
        IN  /\ closes > 0 => \A i \in 1 .. Len(reqs) : reqs[i].op \notin FdOps
            /\ \A c \in At(reqs, "CLOSE") :
                   \A i \in c + 1 .. Len(reqs) : reqs[i].op \notin FdOps
      ]_vars


\* the Camera and every Frame have been dropped
AllDropped == dropped /\ frames = EmptyBag

\* C20: no region is leaked or unmapped twice.  A region is never unmapped more than
\* once and is mapped until it is; once the Camera and every Frame have been dropped,
\* every region ever mapped has been unmapped exactly once, those left in the pool by
\* a failed start() or a failed stop() included.
C20_EveryRegionUnmappedOnce ==
    /\ \A id \in 1 .. Len(regions) :
        /\ regions[id].unmaps <= 1
        /\ regions[id].mapped <=> regions[id].unmaps = 0
    /\ AllDropped =>
        \A id \in 1 .. Len(regions) : ~regions[id].mapped /\ regions[id].unmaps = 1

\* all is dropped after a start() that left a region in the pool and a stream whose
\* STREAMOFF failed in the Camera's drop; a Frame, dropped last, held the last
\* reference to its region
C20_Witness ==
    /\ AllDropped
    /\ state = "Streaming"
    /\ Len(regions) >= 2
    /\ last.op = "frame_drop"
    /\ At(Reqs, "MUNMAP") # {}

====
